---- MODULE Spec2Model ----
(***************************************************************************)
(* A model of the file-serving backend of mbenoukaiss/press:               *)
(*   src/src/backend.rs      FileBackend::get_headers, FileTransfer,       *)
(*                           assemble_file_path, generate_etag             *)
(*   src/src/images/webp.rs  to_webp                                       *)
(*                                                                         *)
(* Strings are sequences of one-character strings, so that splitting,      *)
(* prefix tests, slicing and concatenation are computed as the code        *)
(* computes them.                                                          *)
(***************************************************************************)
EXTENDS Integers, Sequences, FiniteSets, TLC

VARIABLES
    \* assemble_file_path: the call's arguments and its return value
    root_path, url, complete_path, pathDone,
    \* get_headers: the request, the file on disk, the environment's answers,
    \* the metadata the call read, the response being built and the call's
    \* return value
    bereq, file, env, metadata, beresp, result,
    \* FileTransfer: the Take<BufReader<File>> and what the host has observed
    transfer, sent, lastRead,
    \* to_webp: the call's arguments and its outcome
    image, quality, autofilter, webp

pathVars  == <<root_path, url, complete_path, pathDone>>
serveVars == <<bereq, file, env, metadata, beresp, result, transfer, sent,
               lastRead>>
webpVars  == <<image, quality, autofilter, webp>>
vars      == <<pathVars, serveVars, webpVars>>

\* ------------------------------------------------------------------ bounds
MaxUrlLen   == 7    \* longest request URL drawn for assemble_file_path
MaxFileSize == 3    \* the file never grows past this many bytes
MaxBuf      == 3    \* longest buffer the host hands to read
BufCap      == 2    \* capacity of the BufReader (8192 in std, scaled down)
MaxTick     == 3    \* modification times lie in clock ticks 0 .. MaxTick
SubSec      == 2    \* clock ticks per second (10^9 in std, scaled down)

\* Option<T>: None is the empty sequence, Some(x) the sequence holding x
None      == <<>>
Some(x)   == <<x>>
unwrap(o) == o[1]

\* ----------------------------------------------------------------- strings
Slash  == "/"
Dot    == <<".">>
DotDot == <<".", ".">>

UrlChars == {"/", ".", "a", "b"}

RECURSIVE StringsUpTo(_)
StringsUpTo(n) ==
    IF n = 0 THEN {<<>>}
    ELSE LET shorter == StringsUpTo(n - 1)
         IN  shorter \cup {Append(s, c) : s \in {t \in shorter : Len(t) = n - 1},
                                           c \in UrlChars}

\* str::starts_with
starts_with(s, p) == Len(s) >= Len(p) /\ SubSeq(s, 1, Len(p)) = p

\* s[n..] of a Rust str (n counted from 0)
SliceFrom(s, n) == SubSeq(s, n + 1, Len(s))

\* every '/'-separated piece of s, the empty ones included
RECURSIVE SplitFrom(_, _, _)
SplitFrom(s, i, cur) ==
    IF i > Len(s) THEN <<cur>>
    ELSE IF s[i] = Slash THEN <<cur>> \o SplitFrom(s, i + 1, <<>>)
    ELSE SplitFrom(s, i + 1, Append(cur, s[i]))

Split(s) == SplitFrom(s, 1, <<>>)

\* format!("{}", n) of an unsigned integer
RECURSIVE Dec(_)
Digit(d) == CASE d = 0 -> "0" [] d = 1 -> "1" [] d = 2 -> "2" [] d = 3 -> "3"
              [] d = 4 -> "4" [] d = 5 -> "5" [] d = 6 -> "6" [] d = 7 -> "7"
              [] d = 8 -> "8" [] d = 9 -> "9"
Dec(n) == IF n < 10 THEN <<Digit(n)>> ELSE Append(Dec(n \div 10), Digit(n % 10))

\* ------------------------------------------------- std::path::Components
\* Path::components() of a unix path: RootDir when the path starts with '/',
\* CurDir only for a leading "." of a path without root, repeated separators
\* and every other "." normalised away, ".." as ParentDir, the rest Normal.
Component(kind, s) == [kind |-> kind, s |-> s]

RECURSIVE Pieces(_, _)
Pieces(segs, first) ==
    IF segs = <<>> THEN <<>>
    ELSE LET s    == Head(segs)
             rest == Pieces(Tail(segs), FALSE)
         IN  IF s = <<>> THEN Pieces(Tail(segs), first)
             ELSE IF s = Dot
                  THEN (IF first THEN <<Component("CurDir", <<>>)>> ELSE <<>>) \o rest
             ELSE IF s = DotDot THEN <<Component("ParentDir", <<>>)>> \o rest
             ELSE <<Component("Normal", s)>> \o rest

components(p) ==
    LET has_root == Len(p) > 0 /\ p[1] = Slash
        segs     == Split(p)
    IN  IF has_root
        THEN <<Component("RootDir", <<>>)>> \o Pieces(segs, FALSE)
        ELSE Pieces(segs, Len(segs) > 0 /\ Head(segs) = Dot)

\* Vec::pop: removes the last element, does nothing on an empty vector
pop(v) == IF v = <<>> THEN v ELSE SubSeq(v, 1, Len(v) - 1)

\* a match whose ParentDir arm forgets to pop
PopIgnored(stack, c) ==
    CASE c.kind = "RootDir"   -> stack
      [] c.kind = "CurDir"    -> stack
      [] c.kind = "ParentDir" -> stack
      [] c.kind = "Normal"    -> Append(stack, c.s)

\* a plain join that keeps ".." in the path
PushParent(stack, c) ==
    CASE c.kind = "RootDir"   -> stack
      [] c.kind = "CurDir"    -> stack
      [] c.kind = "ParentDir" -> Append(stack, DotDot)
      [] c.kind = "Normal"    -> Append(stack, c.s)

\* the match over one component (backend.rs 114-123)
match_component(stack, c) ==
    CASE c.kind = "RootDir"   -> stack
      [] c.kind = "CurDir"    -> stack
      [] c.kind = "ParentDir" -> pop(stack)
      [] c.kind = "Normal"    -> Append(stack, c.s)

\* the loop over url_path.components() (backend.rs 110-124)
RECURSIVE collect(_, _)
collect(cs, stack) ==
    IF cs = <<>> THEN stack
    ELSE collect(Tail(cs), match_component(stack, Head(cs)))

\* the loop that builds complete_path (backend.rs 126-130)
RECURSIVE push_all(_, _)
push_all(path, cs) ==
    IF cs = <<>> THEN path
    ELSE push_all(path \o <<Slash>> \o Head(cs), Tail(cs))

assemble_file_path(root, u) == push_all(root, collect(components(u), <<>>))

Roots == { <<"/", "r">>, <<"/", "r", "/">>, <<"r">>, <<".", ".">>, <<"/">> }

InitServeIdle ==
    /\ bereq = None /\ file = None /\ env = None /\ metadata = None
    /\ beresp = None
    /\ result = "NotCalled" /\ transfer = None /\ sent = 0 /\ lastRead = None

InitWebpIdle ==
    /\ image = None /\ quality = 0 /\ autofilter = FALSE /\ webp = None

InitPathIdle ==
    /\ root_path = <<>> /\ url = <<>> /\ complete_path = <<>> /\ pathDone = FALSE

\* ------------------------------------------------- SpecPath: path resolution
InitPath ==
    /\ root_path \in Roots          \* assert_ne!(root_path, "")
    /\ url \in StringsUpTo(MaxUrlLen)
    /\ complete_path = <<>>
    /\ pathDone = FALSE
    /\ InitServeIdle
    /\ InitWebpIdle

Resolve ==
    /\ ~pathDone
    /\ complete_path' = assemble_file_path(root_path, url)
    /\ pathDone' = TRUE
    /\ UNCHANGED <<root_path, url, serveVars, webpVars>>

NextPath == Resolve

SpecPath == InitPath /\ [][NextPath]_vars

\* the non-empty '/'-separated segments of a path string
Segments(s) == SelectSeq(Split(s), LAMBDA seg : seg # <<>>)

\* what assemble_file_path appended after root_path
Appended == SliceFrom(complete_path, Len(root_path))

\* C1: the resolved path is root_path followed by zero or more literal
\* segments: it is never shorter than root_path, root_path is an unmodified
\* prefix of it, and every segment appended after it is non-empty and is
\* neither ".." nor ".".
C1_PathContainment ==
    pathDone =>
        /\ Len(complete_path) >= Len(root_path)
        /\ SubSeq(complete_path, 1, Len(root_path)) = root_path
        /\ \/ Appended = <<>>
           \/ /\ Head(Appended) = Slash
              /\ \A i \in DOMAIN Split(Tail(Appended)) :
                     Split(Tail(Appended))[i] \notin {<<>>, Dot, DotDot}

\* a URL that climbs twice above the root and then names a file
C1_Witness ==
    /\ pathDone
    /\ root_path = <<"/", "r">>
    /\ url = <<".", ".", "/", ".", ".", "/", "a">>
    /\ complete_path = <<"/", "r", "/", "a">>

\* the reference fold of C8 over every '/'-separated segment of the URL
RECURSIVE RefFold(_, _)
RefFold(segs, stack) ==
    IF segs = <<>> THEN stack
    ELSE LET s == Head(segs)
         IN  RefFold(Tail(segs),
                     IF s = <<>> \/ s = Dot THEN stack
                     ELSE IF s = DotDot
                          THEN (IF Len(stack) > 0
                                THEN SubSeq(stack, 1, Len(stack) - 1) ELSE stack)
                     ELSE stack \o <<s>>)

\* C8: the segments of the resolved path are the segments of root_path
\* followed, in order, by the result of the reference fold over the URL's
\* segments (empty and "." skipped, ".." pops or is a no-op at the root,
\* anything else pushed).
C8_ReferenceFold ==
    pathDone =>
        Segments(complete_path) = Segments(root_path) \o RefFold(Split(url), <<>>)

\* a ".." that pops a pushed segment, followed by a push
C8_Witness ==
    /\ pathDone
    /\ root_path = <<"/", "r", "/">>
    /\ url = <<"/", "a", "/", ".", ".", "/", "b">>
    /\ complete_path = <<"/", "r", "/", "/", "b">>

\* ------------------------------------------------------ get_headers: inputs
Min(a, b) == IF a < b THEN a ELSE b

\* FileBackend.path of the backend under study, and the one file below it
ServeRoot == <<"/", "r">>
FilePath  == <<"/", "r", "/", "a">>
ServeUrls == { <<"/", ".", ".", "/", "a">>, <<"/", "b">> }

Methods == {Some("GET"), Some("HEAD"), Some("POST"), None}

\* An HTTP date is written as the word "date" followed by the decimal count of
\* whole seconds; the text of a real date is not modelled, its value, its
\* one-second resolution and the possibility of not parsing are.
HttpDate(sec) == <<"date">> \o Dec(sec)
Garbage       == <<"y", "e", "s", "t", "e", "r", "d", "a", "y">>

DigitValue(c) == CASE c = "0" -> 0 [] c = "1" -> 1 [] c = "2" -> 2 [] c = "3" -> 3
                   [] c = "4" -> 4 [] c = "5" -> 5 [] c = "6" -> 6 [] c = "7" -> 7
                   [] c = "8" -> 8 [] c = "9" -> 9
Digits == {"0", "1", "2", "3", "4", "5", "6", "7", "8", "9"}

RECURSIVE ParseDec(_)
ParseDec(ds) ==
    IF ds = <<>> THEN 0
    ELSE 10 * ParseDec(SubSeq(ds, 1, Len(ds) - 1)) + DigitValue(ds[Len(ds)])

\* DateTime::parse_from_rfc2822: Ok(instant, in clock ticks) or Err
parse_from_rfc2822(h) ==
    IF /\ Len(h) >= 2
       /\ h[1] = "date"
       /\ \A i \in 2..Len(h) : h[i] \in Digits
    THEN [ok |-> TRUE,  t |-> ParseDec(Tail(h)) * SubSec]
    ELSE [ok |-> FALSE, t |-> 0]

\* modified.format("%a, %d %b %Y %H:%M:%S GMT"): the sub-second part is dropped
format_http_date(modified) == HttpDate(modified \div SubSec)

\* generate_etag: the quoted decimal of a hash of (inode, size, modified).
\* DefaultHasher is stood in for by a combination that is injective on the
\* model's ranges.
generate_etag(md) ==
    LET h == (md.ino * 101 + md.size) * 101 + md.modified
    IN  <<"\"">> \o Dec(h) \o <<"\"">>

WeakPrefix == <<"W", "/">>

\* the if-none-match values a client may send for a file whose etag is e
InmChoices(e) ==
    { Some(e), Some(WeakPrefix \o e), Some(<<"W">> \o e), Some(WeakPrefix) }

ImsChoices == { Some(HttpDate(sec)) : sec \in 0..(MaxTick \div SubSec + 1) } \cup { Some(Garbage) }

\* ------------------------------------------------- get_headers: the decision
\* a validator check that lets if-modified-since decide after a mismatch
Is304FallsThrough(req, etag, modified) ==
    \/ /\ req.inm # None
       /\ \/ unwrap(req.inm) = etag
          \/ /\ starts_with(unwrap(req.inm), WeakPrefix)
             /\ SliceFrom(unwrap(req.inm), 2) = etag
    \/ /\ req.ims # None
       /\ parse_from_rfc2822(unwrap(req.ims)).ok
       /\ parse_from_rfc2822(unwrap(req.ims)).t > modified

\* "can we avoid sending a body?" (backend.rs 42-54)
is_304(req, etag, modified) ==
    IF req.inm # None
    THEN LET inm == unwrap(req.inm)
         IN  \/ inm = etag
             \/ starts_with(inm, WeakPrefix) /\ SliceFrom(inm, 2) = etag
    ELSE IF req.ims # None
    THEN LET t == parse_from_rfc2822(unwrap(req.ims))
         IN  t.ok /\ t.t > modified
    ELSE FALSE

\* a status choice that looks at the validators before the method
StatusValidatorsFirst(method, is304) ==
    IF is304 THEN 304
    ELSE IF method # Some("HEAD") /\ method # Some("GET") THEN 405
    ELSE 200

\* the status chosen at backend.rs 58-69
status_of(method, is304) ==
    IF method # Some("HEAD") /\ method # Some("GET") THEN 405
    ELSE IF is304 THEN 304
    ELSE 200

\* a FileTransfer: the Take's remaining limit, the bytes the BufReader holds
\* that were not handed out yet, and the offset of the open file
FileTransfer(cl) == [limit |-> cl, avail |-> 0, pos |-> 0]

\* the transfer built at backend.rs 70-75
transfer_of(method, status, cl) ==
    IF status = 200 /\ method = Some("GET") THEN Some(FileTransfer(cl)) ELSE None

Header(name, value) == [name |-> name, value |-> value]

\* the four set_header calls of backend.rs 79-82, in order
metadata_headers(cl, etag, modified) ==
    << Header("content-length", Dec(cl)),
       Header("etag", etag),
       Header("last-modified", format_http_date(modified)),
       Header("content-type", <<"image/webp">>) >>

\* a responder that writes the metadata headers before the method check
Writes405Headers(status) == 4

\* how many set_header calls the code reaches for a status: the 405 branch
\* returns before them (backend.rs 58-62)
headers_reached(status) == IF status = 405 THEN 0 ELSE 4

EmptyResp == [proto |-> None, status |-> 0, headers |-> <<>>]

Failed(md, resp) ==
    [result |-> "Err", metadata |-> md, beresp |-> resp, transfer |-> None]

\* a responder that checks nothing about the file it opened
OpenAlwaysSucceeds(path, e) == TRUE

\* File::open(&path) succeeds when the path names the file and the OS grants it
open_ok(path, e) == path = FilePath /\ e.open

\* get_headers (backend.rs 19-85). e is what the environment answers: whether
\* the OS lets the file be opened and its metadata be read, and how many
\* writes (set_proto, set_header) the host's workspace still accepts; each of
\* these calls is followed by `?` in the code.
get_headers(req, f, e) ==
    LET path == assemble_file_path(ServeRoot, req.url)
    IN
    IF ~open_ok(path, e) THEN Failed(None, EmptyResp)        \* File::open(..)?
    ELSE IF ~e.meta THEN Failed(None, EmptyResp)             \* f.metadata()?
    ELSE
    LET cl       == f.size
        modified == f.modified
        etag     == generate_etag(f)
        is304    == is_304(req, etag, modified)
        status   == status_of(req.method, is304)
        reached  == headers_reached(status)
        written  == Min(e.room - 1, reached)
        resp     == [proto   |-> Some("HTTP/1.1"),
                     status  |-> status,
                     headers |-> SubSeq(metadata_headers(cl, etag, modified),
                                        1, written)]
    IN
    IF e.room < 1 THEN Failed(Some(f), EmptyResp)            \* set_proto(..)?
    ELSE IF written < reached THEN Failed(Some(f), resp)     \* set_header(..)?
    ELSE [result   |-> "Ok",
          metadata |-> Some(f),
          beresp   |-> resp,
          transfer |-> IF status = 405 THEN None
                       ELSE transfer_of(req.method, status, cl)]

\* ------------------------------------------------------ FileTransfer::read
\* File::read: at most `want` bytes, at most what the file holds past `pos`,
\* and possibly fewer (`cap`, a short read)
file_read(want, pos, size, cap) ==
    IF size > pos THEN Min(Min(want, size - pos), cap) ELSE 0

\* BufReader::read: bypasses an empty buffer for a large request, otherwise
\* fills the buffer when it is empty and copies out of it
bufreader_read(t, len, size, cap) ==
    IF t.avail = 0 /\ len >= BufCap
    THEN LET k == file_read(len, t.pos, size, cap)
         IN  [avail |-> 0, pos |-> t.pos + k, n |-> k]
    ELSE LET filled == IF t.avail = 0 THEN file_read(BufCap, t.pos, size, cap) ELSE 0
             avail  == t.avail + filled
             k      == Min(avail, len)
         IN  [avail |-> avail - k, pos |-> t.pos + filled, n |-> k]

\* a Take that hands the whole buffer to the reader below it
TakeUnlimited(t, len) == len

\* Take::read: the part of the buffer the inner reader may fill
take_max(t, len) == Min(len, t.limit)

\* FileTransfer::read (backend.rs 93-95) over Take<BufReader<File>>
read(t, len, size, cap) ==
    IF t.limit = 0 THEN [t |-> t, n |-> 0]
    ELSE LET r == bufreader_read(t, take_max(t, len), size, cap)
         IN  [t |-> [limit |-> t.limit - r.n, avail |-> r.avail, pos |-> r.pos],
              n |-> r.n]

\* FileTransfer::len (backend.rs 97-99): Take::limit()
len(t) == t.limit

\* ------------------------------------------------------------- Spec: serving
Init ==
    /\ file \in [size : 0..MaxFileSize, modified : 0..MaxTick, ino : {1}]
    /\ \E m \in Methods, u \in ServeUrls,
          inm \in {None} \cup InmChoices(generate_etag(file)),
          ims \in {None} \cup ImsChoices :
          bereq = [method |-> m, url |-> u, inm |-> inm, ims |-> ims]
    /\ env = None
    /\ metadata = None
    /\ beresp = EmptyResp
    /\ result = "NotCalled"
    /\ transfer = None
    /\ sent = 0
    /\ lastRead = None
    /\ InitPathIdle
    /\ InitWebpIdle

\* the host calls get_headers once for the request
GetHeaders ==
    /\ result = "NotCalled"
    /\ \E open \in BOOLEAN, meta \in BOOLEAN, room \in 0..5 :
          LET e   == [open |-> open, meta |-> meta, room |-> room]
              out == get_headers(bereq, file, e)
          IN  /\ env' = Some(e)
              /\ metadata' = out.metadata
              /\ result' = out.result
              /\ beresp' = out.beresp
              /\ transfer' = out.transfer
    /\ UNCHANGED <<bereq, file, sent, lastRead, pathVars, webpVars>>

\* the host pulls body bytes into a buffer of its choosing
Read ==
    /\ transfer # None
    /\ \E buflen \in 0..MaxBuf, cap \in 1..MaxBuf :
          LET out == read(unwrap(transfer), buflen, file.size, cap)
          IN  /\ transfer' = Some(out.t)
              /\ sent' = sent + out.n
              /\ lastRead' = Some("Ok")
    /\ UNCHANGED <<bereq, file, env, metadata, beresp, result, pathVars,
                   webpVars>>

\* the underlying read fails: the error is handed to the host, nothing moves
ReadFails ==
    /\ transfer # None
    /\ unwrap(transfer).limit > 0
    /\ lastRead' = Some("Err")
    /\ UNCHANGED <<bereq, file, env, metadata, beresp, result, transfer, sent,
                   pathVars, webpVars>>

\* another process appends to the file at any time; the write stamps the file
\* with the current time, the tick of its last change or the next one
AppendToFile ==
    /\ file.size < MaxFileSize
    /\ \E m \in {file.modified, Min(file.modified + 1, MaxTick)} :
          file' = [file EXCEPT !.size = @ + 1, !.modified = m]
    /\ UNCHANGED <<bereq, env, metadata, beresp, result, transfer, sent,
                   lastRead, pathVars, webpVars>>

Next == GetHeaders \/ Read \/ ReadFails \/ AppendToFile

Spec == Init /\ [][Next]_vars

\* ------------------------------------------------- claims about get_headers
Called == result # "NotCalled"

\* the call opened the file and read its metadata
FileRead == Called /\ metadata # None

\* the host accepted the status line (set_proto did not fail)
StatusWritten == FileRead /\ unwrap(env).room >= 1

GetOrHead == bereq.method \in {Some("GET"), Some("HEAD")}

\* the etag and modification time the call derived from the metadata it read
EtagRead     == generate_etag(unwrap(metadata))
ModifiedRead == unwrap(metadata).modified

HeaderNames == [i \in DOMAIN beresp.headers |-> beresp.headers[i].name]

HeaderValue(name) ==
    LET i == CHOOSE i \in DOMAIN beresp.headers : beresp.headers[i].name = name
    IN  beresp.headers[i].value

\* C2: for GET or HEAD on a file that was opened, with if-none-match present,
\* the status is 304 when the header is the etag or "W/" followed by the etag
\* and 200 otherwise, whatever if-modified-since holds. (Stated for the
\* requests whose status line the host accepted: when set_proto fails the
\* call returns Err before any status is written.)
C2_IfNoneMatchDecides ==
    (StatusWritten /\ GetOrHead /\ bereq.inm # None) =>
        beresp.status =
            IF \/ unwrap(bereq.inm) = EtagRead
               \/ unwrap(bereq.inm) = <<"W", "/">> \o EtagRead
            THEN 304 ELSE 200

\* a mismatching if-none-match next to an if-modified-since later than the
\* modification time: the date alone would have given 304
C2_Witness ==
    /\ StatusWritten /\ GetOrHead
    /\ bereq.inm = Some(<<"W">> \o EtagRead)
    /\ bereq.ims # None
    /\ parse_from_rfc2822(unwrap(bereq.ims)).ok
    /\ parse_from_rfc2822(unwrap(bereq.ims)).t > ModifiedRead
    /\ beresp.status = 200

\* C3: for GET or HEAD without if-none-match and with an if-modified-since that
\* parses to t, the status is 304 exactly when t >= modified (t = modified
\* included) and 200 when t is earlier. The code compares t > modified.
C3_AtOrAfterIs304 ==
    (/\ StatusWritten /\ GetOrHead
     /\ bereq.inm = None /\ bereq.ims # None
     /\ parse_from_rfc2822(unwrap(bereq.ims)).ok) =>
        beresp.status =
            IF parse_from_rfc2822(unwrap(bereq.ims)).t >= ModifiedRead
            THEN 304 ELSE 200

\* C4: for a method that is neither GET nor HEAD (an absent one included), once
\* the file was opened and its metadata read, the outcome is 405 without a
\* body and without metadata headers, whatever the conditional headers hold:
\* the status is never 304 or 200.
C4_MethodGating ==
    (FileRead /\ ~GetOrHead) =>
        /\ transfer = None
        /\ beresp.headers = <<>>
        /\ beresp.status \notin {200, 304}
        /\ StatusWritten => (beresp.status = 405 /\ result = "Ok")

\* a POST whose if-none-match matches the etag still ends in 405
C4_Witness ==
    /\ FileRead
    /\ bereq.method = Some("POST")
    /\ bereq.inm = Some(EtagRead)
    /\ beresp.status = 405
    /\ result = "Ok"

\* C6: a request that succeeds carries one status of 200, 304 and 405; 200 and
\* 304 carry the four metadata headers, 405 carries none (protocol and status
\* only); a body is returned exactly for status 200 with method GET.
C6_DecisionShape ==
    result = "Ok" =>
        /\ beresp.status \in {200, 304, 405}
        /\ beresp.proto = Some("HTTP/1.1")
        /\ beresp.status \in {200, 304} =>
               HeaderNames = <<"content-length", "etag", "last-modified",
                               "content-type">>
        /\ beresp.status = 405 => beresp.headers = <<>>
        /\ transfer # None <=> (beresp.status = 200 /\ bereq.method = Some("GET"))

\* a HEAD answered with 200: the four headers and no body
C6_Witness ==
    /\ result = "Ok"
    /\ bereq.method = Some("HEAD")
    /\ beresp.status = 200
    /\ Len(beresp.headers) = 4
    /\ transfer = None

\* C9 as stated: get_headers returns an error exactly when opening the
\* resolved path or reading its metadata fails.
C9_ErrorIffFileAccessFails ==
    Called =>
        (result = "Err" <=>
            \/ assemble_file_path(ServeRoot, bereq.url) # FilePath
            \/ ~unwrap(env).open
            \/ ~unwrap(env).meta)

\* the writes to the host's response that the request reaches: set_proto for
\* every method, the four set_header calls for GET and HEAD
WritesReached == IF GetOrHead THEN 5 ELSE 1

\* C9, amended: get_headers returns an error exactly when opening the resolved
\* path fails, reading its metadata fails, or the host rejects one of the
\* response writes the request reaches, and it does so for every method.
\* Without such a failure an unparseable if-modified-since without
\* if-none-match yields 200 and a mismatching if-none-match yields 200.
C9_ErrorIffAccessOrWriteFails ==
    Called =>
        /\ result = "Err" <=>
              \/ assemble_file_path(ServeRoot, bereq.url) # FilePath
              \/ ~unwrap(env).open
              \/ ~unwrap(env).meta
              \/ unwrap(env).room < WritesReached
        /\ (/\ result = "Ok" /\ GetOrHead /\ bereq.inm = None
            /\ bereq.ims # None
            /\ ~parse_from_rfc2822(unwrap(bereq.ims)).ok) => beresp.status = 200
        /\ (/\ result = "Ok" /\ GetOrHead /\ bereq.inm # None
            /\ unwrap(bereq.inm) \notin {EtagRead, <<"W", "/">> \o EtagRead})
               => beresp.status = 200

\* a request with an absent method whose file the OS refuses to open
C9_Witness ==
    /\ result = "Err"
    /\ bereq.method = None
    /\ assemble_file_path(ServeRoot, bereq.url) = FilePath
    /\ ~unwrap(env).open

\* ------------------------------------------------ claims about FileTransfer
\* C5: the limit N of a FileTransfer is the size read from the metadata, the
\* value written to content-length, and the bytes returned by all reads never
\* add up to more than N, however the reads and the appends interleave.
C5_TransferBound ==
    transfer # None =>
        /\ ParseDec(HeaderValue("content-length")) = unwrap(metadata).size
        /\ sent + unwrap(transfer).limit = unwrap(metadata).size
        /\ sent <= unwrap(metadata).size

\* the file grew past N while the body was being read, and the stream ended
\* after N bytes
C5_Witness ==
    /\ transfer # None
    /\ unwrap(metadata).size > 0
    /\ file.size > unwrap(metadata).size
    /\ sent = unwrap(metadata).size
    /\ unwrap(transfer).avail > 0
    /\ lastRead = Some("Ok")

\* C7: len() reports the total N fixed at construction at every moment of the
\* stream's life: before the first read, between reads and after the last.
C7_LenIsFixedTotal ==
    transfer # None => len(unwrap(transfer)) = unwrap(metadata).size

\* ---------------------------------------------------------------- to_webp
\* the variants of image::DynamicImage
DynamicImage ==
    { "ImageLuma8", "ImageLumaA8", "ImageRgb8", "ImageRgba8", "ImageLuma16",
      "ImageLumaA16", "ImageRgb16", "ImageRgba16", "ImageRgb32F", "ImageRgba32F" }

\* the qualities handed to to_webp, whole numbers standing for the f32; the
\* encoder accepts 0 to 100
Qualities == {0 - 1, 0, 50, 100, 101}

\* the WebPConfig built at webp.rs 25-36
config_of(q, af) ==
    [ quality           |-> q,
      lossless          |-> 0,
      alpha_quality     |-> 50,
      alpha_compression |-> 1,
      alpha_filtering   |-> 0,
      autofilter        |-> IF af THEN 1 ELSE 0,
      filter_sharpness  |-> 4,
      filter_strength   |-> 50,
      filter_type       |-> 0,
      use_sharp_yuv     |-> 0,
      method            |-> 3 ]

\* Encoder::from_image: Ok for the 8-bit RGB and RGBA layouts, Err otherwise
from_image(img) == img \in {"ImageRgb8", "ImageRgba8"}

\* Encoder::encode_advanced: Err for a configuration the encoder rejects
encode_advanced(config) == config.quality >= 0 /\ config.quality <= 100

\* to_webp (webp.rs 24-43): the function returns a Webp and has no error
\* value to return; expect and unwrap panic on Err
to_webp(img, q, af) ==
    LET config == config_of(q, af)
    IN  IF ~from_image(img)
        THEN [kind |-> "Panic", message |-> "Unsupported format", config |-> config]
        ELSE IF ~encode_advanced(config)
        THEN [kind |-> "Panic", message |-> "unwrap on Err", config |-> config]
        ELSE [kind |-> "Webp", message |-> "", config |-> config]

InitWebp ==
    /\ image \in {Some(i) : i \in DynamicImage}
    /\ quality \in Qualities
    /\ autofilter \in BOOLEAN
    /\ webp = None
    /\ InitPathIdle
    /\ InitServeIdle

ToWebp ==
    /\ webp = None
    /\ webp' = Some(to_webp(unwrap(image), quality, autofilter))
    /\ UNCHANGED <<image, quality, autofilter, pathVars, serveVars>>

NextWebp == ToWebp

SpecWebp == InitWebp /\ [][NextWebp]_vars

\* C10: to_webp called with an image whose pixel layout cannot be encoded ends
\* in an error outcome reported to its caller and never in an encoded image;
\* called with a supported image (and a quality the encoder accepts) it
\* returns an encoded image.
C10_UnsupportedIsReportedError ==
    webp # None =>
        IF unwrap(image) \in {"ImageRgb8", "ImageRgba8"}
        THEN (quality >= 0 /\ quality <= 100) => unwrap(webp).kind = "Webp"
        ELSE unwrap(webp).kind = "Err"

====
